---- MODULE Spec2Model ----
(***************************************************************************)
(* Model of dock/docked_app_manager.go: the DockedAppManager that loads,   *)
(* migrates and persists the list of docked application ids, and the       *)
(* dock/undock path that re-synchronises it with the DockManager.          *)
(***************************************************************************)
EXTENDS Integers, Sequences, FiniteSets, TLC

\* ------------------------------------------------------------------ bounds
\* longest list held by gsettings or by the old config file at installation
MaxLen == 3
\* longest list the DockManager holds
MaxDock == 2
\* number of program operations (constructions, requests, exits) in a run
MaxOps == 4

\* application ids
Ids == {"a", "b"}

\* value of migGs when the last operation was not a migrating construction
NoList == <<"?">>

RECURSIVE SeqsUpTo(_)
SeqsUpTo(n) ==
    IF n = 0 THEN {<<>>}
    ELSE LET shorter == SeqsUpTo(n - 1)
         IN shorter \cup {Append(s, x) : s \in {t \in shorter : Len(t) = n - 1}, x \in Ids}

\* ------------------------------------------------------ slice utilities
isStrInSlice(str, slice) == \E i \in 1..Len(slice) : slice[i] = str

strSliceEqual(s1, s2) ==
    /\ Len(s1) = Len(s2)
    /\ \A i \in 1..Len(s1) : s1[i] = s2[i]

RECURSIVE uniqFrom(_, _)
uniqFrom(slice, acc) ==
    IF slice = <<>> THEN acc
    ELSE uniqFrom(Tail(slice),
                  IF isStrInSlice(Head(slice), acc) THEN acc ELSE Append(acc, Head(slice)))

\* first-occurrence deduplication
uniqStrSlice(slice) == uniqFrom(slice, <<>>)

NoDup(slice) == \A i, j \in 1..Len(slice) : slice[i] = slice[j] => i = j

\* ------------------------------------------------------------------ state
VARIABLES
    phase,          \* "Uninitialized" before NewDockedAppManager, "Ready" after
    settings,       \* m.settings is non-nil (gio.NewSettings succeeded)
    writable,       \* SetStrv on the docked-apps key takes effect
    dockedAppList,  \* m.dockedAppList, the cached list
    gs,             \* the value gsettings holds under "docked-apps"
    conf,           \* the old config file dock/apps.ini on disk: whether it exists,
                    \* its __Config__/inited flag, whether it has a readable
                    \* __Config__/Position list, and that list
    dock,           \* the DockManager's docked ids, what getDockedAppList returns
    ret,            \* what the last request returned
    tr,             \* the effects of the last operation, in order
    last,           \* the last operation, its inputs and the state it started in
    migrations,     \* how often the migration body (lines 93-107) has run
    migGs,          \* gs as the last construction left it, if it migrated
    nUndockOk,      \* RequestUndock calls that returned true
    nUndocked,      \* Undocked signals emitted
    ops,            \* operations so far
    nilPanics,      \* whether a call on the nil m.settings ends the process
    installed,      \* the ids NewAppInfo resolves to an installed application
    meta,           \* the ids whose section of the old file has CmdLine, Icon, Name
    seen,           \* the lists as they are when the last signal is emitted
    thr             \* concurrent requests: each one's position and local apps

vars == <<phase, settings, writable, dockedAppList, gs, conf, dock, ret, tr, last,
          migrations, migGs, nUndockOk, nUndocked, ops, nilPanics, installed, meta,
          seen, thr>>

\* value of seen when the operation has emitted no signal
NoSeen == [dockedAppList |-> NoList, gs |-> NoList, dock |-> NoList]

\* The program state the operations work on, as one record.
World ==
    [settings |-> settings, writable |-> writable, dockedAppList |-> dockedAppList,
     gs |-> gs, conf |-> conf, dock |-> dock, ret |-> FALSE, tr |-> <<>>,
     migrations |-> migrations, nilPanics |-> nilPanics, crashed |-> FALSE,
     installed |-> installed, meta |-> meta, seen |-> NoSeen]

\* effects recorded in tr
Eff(kind, apps, id) == [kind |-> kind, apps |-> apps, id |-> id]

\* a step of the old-config handling, recorded in tr
Note(w, kind) == [w EXCEPT !.tr = Append(@, Eff(kind, <<>>, ""))]

\* ----------------------------------------------------------- operations
\* saveAppList: SetStrv then SettingsSync.  There is no nil check: with
\* m.settings nil the call is made on the nil pointer, which either ends the
\* process or is refused by the library, as the build has it.
saveAppList(w, apps) ==
    IF ~w.settings
    THEN [w EXCEPT !.tr = Append(@, Eff("NilSetStrv", apps, "")),
                   !.crashed = @ \/ w.nilPanics]
    ELSE [w EXCEPT !.gs = IF w.writable THEN apps ELSE @,
                   !.tr = @ \o <<Eff("SetStrv", apps, ""), Eff("Sync", <<>>, "")>>]

emitSignal(w, name, id) ==
    [w EXCEPT !.tr = Append(@, Eff(name, <<>>, id)),
              !.seen = [dockedAppList |-> w.dockedAppList, gs |-> w.gs, dock |-> w.dock]]

getDockedAppList(w) == w.dock

\* mutant: writes and replaces the cache without comparing
saveDockedAppList_NoCompare(w) ==
    LET apps == getDockedAppList(w)
    IN [saveAppList(w, apps) EXCEPT !.dockedAppList = apps]

\* mutant: compares the two lists as sets, whatever their order
saveDockedAppList_AnyOrder(w) ==
    LET apps == getDockedAppList(w)
        elems(l) == {l[i] : i \in 1..Len(l)}
    IN IF elems(w.dockedAppList) # elems(apps) \/ Len(w.dockedAppList) # Len(apps)
       THEN [saveAppList(w, apps) EXCEPT !.dockedAppList = apps]
       ELSE w

\* mutant: persists the list and forgets to replace the cached one
saveDockedAppList_NoCacheUpdate(w) ==
    LET apps == getDockedAppList(w)
    IN IF ~strSliceEqual(w.dockedAppList, apps) THEN saveAppList(w, apps) ELSE w

\* mutant: replaces the cached list only when the write took effect
saveDockedAppList_CacheIfStored(w) ==
    LET apps == getDockedAppList(w)
        w1 == saveAppList(w, apps)
    IN IF strSliceEqual(w.dockedAppList, apps) THEN w
       ELSE IF w1.gs = apps THEN [w1 EXCEPT !.dockedAppList = apps] ELSE w1

saveDockedAppList(w) ==
    LET apps == getDockedAppList(w)
    IN IF ~strSliceEqual(w.dockedAppList, apps)
       THEN [saveAppList(w, apps) EXCEPT !.dockedAppList = apps]
       ELSE w

\* the loop over the old ids: an id that resolves to an installed application
\* is kept as it is; for any other, CmdLine, Icon and Name are read with their
\* errors dropped and createScratchDesktopFile is called with what was read
RECURSIVE scratchEntries(_, _)
scratchEntries(w, ids) ==
    IF ids = <<>> THEN w
    ELSE LET id == Head(ids)
             kind == IF id \in w.meta THEN "Scratch" ELSE "ScratchEmpty"
         IN scratchEntries(IF id \in w.installed THEN w
                           ELSE [w EXCEPT !.tr = Append(@, Eff(kind, <<>>, id))],
                           Tail(ids))

\* the steps that end the migration: set inited, serialise, write the file back
writeBack(w, dataOK, writeOK) ==
    IF ~dataOK THEN Note(w, "ToDataFailed")
    ELSE IF ~writeOK THEN Note(w, "WriteFileFailed")
    ELSE [Note(w, "WriteFile") EXCEPT !.conf.inited = TRUE]

\* mutant: leaves out the ids that neither resolve nor have usable fields
migrationBody_SkipMalformed(w, dataOK, writeOK) ==
    LET ids == uniqStrSlice(w.conf.position)
        kept == SelectSeq(ids, LAMBDA id : id \in w.installed \/ id \in w.meta)
        w1 == scratchEntries([w EXCEPT !.migrations = @ + 1], kept)
    IN writeBack(saveAppList(w1, kept), dataOK, writeOK)

\* mutant: appends the old ids to the stored list
migrationBody_Merge(w, dataOK, writeOK) ==
    LET ids == uniqStrSlice(w.conf.position)
        w1 == scratchEntries([w EXCEPT !.migrations = @ + 1], ids)
    IN writeBack(saveAppList(w1, uniqStrSlice(w.gs \o ids)), dataOK, writeOK)

\* the migration body, from uniqStrSlice(ids) to the write-back of the old file
migrationBody(w, dataOK, writeOK) ==
    LET ids == uniqStrSlice(w.conf.position)
        w1 == scratchEntries([w EXCEPT !.migrations = @ + 1], ids)
    IN writeBack(saveAppList(w1, ids), dataOK, writeOK)

\* loadOK: conf.LoadFromFile succeeds; dataOK: conf.ToData succeeds;
\* writeOK: ioutil.WriteFile succeeds
\* mutant: migrates without looking at the inited flag
handleOldConfigFile_IgnoreInited(w, loadOK, dataOK, writeOK) ==
    IF ~w.conf.exists \/ ~loadOK THEN Note(w, "LoadFailed")
    ELSE LET w0 == Note(w, "GetPosition")
         IN IF ~w.conf.hasPosition THEN w0
            ELSE migrationBody(w0, dataOK, writeOK)

\* mutant: sets the inited flag in the old file when it cannot be loaded
handleOldConfigFile_FlagOnLoadFail(w, loadOK, dataOK, writeOK) ==
    IF ~w.conf.exists \/ ~loadOK
    THEN [Note(w, "LoadFailed") EXCEPT !.conf.inited = w.conf.exists]
    ELSE IF w.conf.inited THEN Note(w, "Inited")
    ELSE LET w0 == Note(w, "GetPosition")
         IN IF ~w.conf.hasPosition THEN w0
            ELSE migrationBody(w0, dataOK, writeOK)

handleOldConfigFile(w, loadOK, dataOK, writeOK) ==
    IF ~w.conf.exists \/ ~loadOK THEN Note(w, "LoadFailed")
    ELSE IF w.conf.inited THEN Note(w, "Inited")
    ELSE LET w0 == Note(w, "GetPosition")
         IN IF ~w.conf.hasPosition THEN w0
            ELSE migrationBody(w0, dataOK, writeOK)

\* mutant: loads the stored list as it is, without uniqStrSlice
init_NoUniq(w, loadOK, dataOK, writeOK) ==
    IF ~w.settings THEN w
    ELSE LET w1 == handleOldConfigFile(w, loadOK, dataOK, writeOK)
             l == w1.gs
         IN saveAppList([w1 EXCEPT !.dockedAppList = l], l)

\* mutant: ends the construction with a synchronisation against the DockManager
init_SyncWithDock(w, loadOK, dataOK, writeOK) ==
    IF ~w.settings THEN w
    ELSE LET w1 == handleOldConfigFile(w, loadOK, dataOK, writeOK)
             l == uniqStrSlice(w1.gs)
         IN saveDockedAppList(saveAppList([w1 EXCEPT !.dockedAppList = l], l))

\* mutant: caches the deduplicated list without writing it back
init_NoWriteBack(w, loadOK, dataOK, writeOK) ==
    IF ~w.settings THEN w
    ELSE LET w1 == handleOldConfigFile(w, loadOK, dataOK, writeOK)
             l == uniqStrSlice(w1.gs)
         IN [w1 EXCEPT !.dockedAppList = l]

init(w, loadOK, dataOK, writeOK) ==
    IF ~w.settings THEN w
    ELSE LET w1 == handleOldConfigFile(w, loadOK, dataOK, writeOK)
             l == uniqStrSlice(w1.gs)
         IN saveAppList([w1 EXCEPT !.dockedAppList = l], l)

\* mutant: asks the DockManager instead of the cached list
IsDocked_AskDock(w, appId) == isStrInSlice(appId, getDockedAppList(w))

IsDocked(w, appId) == isStrInSlice(appId, w.dockedAppList)

\* mutant: synchronises before it looks at entry.appInfo
dockAppEntry_SaveFirst(w, appId, hasAppInfo) ==
    LET w1 == saveDockedAppList(w)
    IN IF ~hasAppInfo THEN [w1 EXCEPT !.ret = FALSE]
       ELSE [emitSignal(w1, "Docked", appId) EXCEPT !.ret = TRUE]

\* mutant: emits Docked only when the synchronisation changed the cached list
dockAppEntry_EmitIfChanged(w, appId, hasAppInfo) ==
    IF ~hasAppInfo THEN [w EXCEPT !.ret = FALSE]
    ELSE LET w1 == saveDockedAppList(w)
         IN IF w1.dockedAppList = w.dockedAppList THEN [w1 EXCEPT !.ret = TRUE]
            ELSE [emitSignal(w1, "Docked", appId) EXCEPT !.ret = TRUE]

\* mutant: emits Docked before it synchronises
dockAppEntry_EmitFirst(w, appId, hasAppInfo) ==
    IF ~hasAppInfo THEN [w EXCEPT !.ret = FALSE]
    ELSE [saveDockedAppList(emitSignal(w, "Docked", appId)) EXCEPT !.ret = TRUE]

\* hasAppInfo: entry.appInfo # nil
dockAppEntry(w, appId, hasAppInfo) ==
    IF ~hasAppInfo THEN [w EXCEPT !.ret = FALSE]
    ELSE [emitSignal(saveDockedAppList(w), "Docked", appId) EXCEPT !.ret = TRUE]

\* mutant: emits Undocked only when the synchronisation changed the cached list
undockAppEntry_EmitIfChanged(w, appId) ==
    LET w1 == saveDockedAppList(w)
    IN IF w1.dockedAppList = w.dockedAppList THEN [w1 EXCEPT !.ret = TRUE]
       ELSE [emitSignal(w1, "Undocked", appId) EXCEPT !.ret = TRUE]

undockAppEntry(w, appId) ==
    [emitSignal(saveDockedAppList(w), "Undocked", appId) EXCEPT !.ret = TRUE]

\* DockManager: the live dock state.  Docking appends an id that is not docked,
\* undocking removes the id.
DockStateDock(list, id) == IF isStrInSlice(id, list) THEN list ELSE Append(list, id)

DockStateUndock(list, id) == SelectSeq(list, LAMBDA x : x # id)

\* accept: the DockManager carries the request out
requestDock(w, id, hasAppInfo, accept) ==
    IF ~accept THEN [w EXCEPT !.ret = FALSE]
    ELSE dockAppEntry(IF hasAppInfo THEN [w EXCEPT !.dock = DockStateDock(@, id)] ELSE w,
                      id, hasAppInfo)

undockEntryByAppId(w, id, accept) ==
    IF ~isStrInSlice(id, w.dock) \/ ~accept THEN [w EXCEPT !.ret = FALSE]
    ELSE undockAppEntry([w EXCEPT !.dock = DockStateUndock(@, id)], id)

RequestDock(w, id, hasAppInfo, accept) == requestDock(w, id, hasAppInfo, accept)

RequestUndock(w, id, accept) == undockEntryByAppId(w, id, accept)

\* ---------------------------------------------------------- observations
Count(t, kind) == Cardinality({i \in 1..Len(t) : t[i].kind = kind})

Writes(t) == Count(t, "SetStrv")

Events(t) == SelectSeq(t, LAMBDA e : e.kind \in {"Docked", "Undocked"})

Pre == [dockedAppList |-> dockedAppList, gs |-> gs, conf |-> conf, dock |-> dock,
        migrations |-> migrations, migGs |-> migGs]

\* ---------------------------------------------------------------- actions
\* the effects up to and including the call on the nil m.settings
RECURSIVE UpToNil(_)
UpToNil(t) ==
    IF t = <<>> THEN <<>>
    ELSE IF Head(t).kind = "NilSetStrv" THEN <<Head(t)>>
    ELSE <<Head(t)>> \o UpToNil(Tail(t))

\* the variables of the program state take the values of record w; when the
\* call on the nil m.settings ended the process, nothing after it has happened
\* and the manager is gone
Commit(w) ==
    /\ phase' = IF w.crashed THEN "Crashed" ELSE "Ready"
    /\ dockedAppList' = IF w.crashed THEN <<>> ELSE w.dockedAppList
    /\ gs' = w.gs
    /\ conf' = w.conf
    /\ dock' = w.dock
    /\ ret' = (w.ret /\ ~w.crashed)
    /\ tr' = IF w.crashed THEN UpToNil(w.tr) ELSE w.tr
    /\ seen' = IF w.crashed THEN NoSeen ELSE w.seen
    /\ migrations' = w.migrations
    /\ ops' = ops + 1
    /\ UNCHANGED <<settings, writable, nilPanics, installed, meta, thr>>

NewDockedAppManager ==
    /\ phase = "Uninitialized"
    /\ ops < MaxOps
    /\ \E loadOK, dataOK, writeOK \in BOOLEAN :
         LET w == init(World, loadOK, dataOK, writeOK)
         IN /\ Commit(w)
            /\ last' = [op |-> "New", id |-> "", pre |-> Pre]
            /\ migGs' = IF w.migrations > migrations THEN w.gs ELSE NoList
    /\ UNCHANGED <<nUndockOk, nUndocked>>

DoRequestDock ==
    /\ phase = "Ready"
    /\ ops < MaxOps
    /\ \E id \in Ids, hasAppInfo, accept \in BOOLEAN :
         /\ Commit(RequestDock(World, id, hasAppInfo, accept))
         /\ last' = [op |-> "RequestDock", id |-> id, pre |-> Pre]
    /\ migGs' = NoList
    /\ UNCHANGED <<nUndockOk, nUndocked>>

DoRequestUndock ==
    /\ phase = "Ready"
    /\ ops < MaxOps
    /\ \E id \in Ids, accept \in BOOLEAN :
         LET w == RequestUndock(World, id, accept)
         IN /\ Commit(w)
            /\ last' = [op |-> "RequestUndock", id |-> id, pre |-> Pre]
            /\ nUndockOk' = nUndockOk + (IF w.ret THEN 1 ELSE 0)
            /\ nUndocked' = nUndocked + (IF w.crashed THEN 0 ELSE Count(w.tr, "Undocked"))
    /\ migGs' = NoList

\* a caller asks IsDocked(id)
DoIsDocked ==
    /\ phase = "Ready"
    /\ ops < MaxOps
    /\ \E id \in Ids :
         /\ Commit([World EXCEPT !.ret = IsDocked(World, id)])
         /\ last' = [op |-> "IsDocked", id |-> id, pre |-> Pre]
    /\ UNCHANGED <<migGs, nUndockOk, nUndocked>>

\* the process ends; the next one constructs a new manager, next to a
\* DockManager that restores the entries it held
Exit ==
    /\ phase \in {"Ready", "Crashed"}
    /\ ops < MaxOps
    /\ phase' = "Uninitialized"
    /\ dockedAppList' = <<>>
    /\ ret' = FALSE
    /\ tr' = <<>>
    /\ last' = [op |-> "Exit", id |-> "", pre |-> Pre]
    /\ ops' = ops + 1
    /\ seen' = NoSeen
    /\ UNCHANGED <<settings, writable, gs, conf, dock, migrations, migGs,
                   nUndockOk, nUndocked, nilPanics, installed, meta, thr>>

ConfFiles ==
    {[exists |-> FALSE, inited |-> FALSE, hasPosition |-> FALSE, position |-> <<>>]}
    \cup {[exists |-> TRUE, inited |-> i, hasPosition |-> FALSE, position |-> <<>>] :
             i \in BOOLEAN}
    \cup [exists : {TRUE}, inited : BOOLEAN, hasPosition : {TRUE},
          position : SeqsUpTo(MaxLen)]

\* concurrent requests
Threads == {1, 2}

\* no request is running concurrently
NoThreads == [t \in Threads |-> [pc |-> "none", op |-> "", id |-> "", apps |-> <<>>]]

\* nothing has been done yet
NoHistory ==
    /\ ret = FALSE
    /\ tr = <<>>
    /\ last = [op |-> "None", id |-> "",
               pre |-> [dockedAppList |-> <<>>, gs |-> gs, conf |-> conf, dock |-> dock,
                        migrations |-> 0, migGs |-> NoList]]
    /\ migrations = 0
    /\ migGs = NoList
    /\ nUndockOk = 0
    /\ nUndocked = 0
    /\ ops = 0
    /\ seen = NoSeen

\* no manager is constructed yet
Fresh ==
    /\ phase = "Uninitialized"
    /\ dockedAppList = <<>>
    /\ thr = NoThreads
    /\ NoHistory

\* a working backend; "a" is installed, "b" is not and has no usable fields in
\* the old file
Init ==
    /\ settings = TRUE
    /\ writable = TRUE
    /\ nilPanics = FALSE
    /\ installed = {"a"}
    /\ meta = {}
    /\ gs \in SeqsUpTo(MaxLen)
    /\ conf \in ConfFiles
    /\ dock \in SeqsUpTo(MaxDock)
    /\ Fresh

Next ==
    \/ NewDockedAppManager
    \/ DoRequestDock
    \/ DoRequestUndock
    \/ DoIsDocked
    \/ Exit

Spec == Init /\ [][Next]_vars

\* ------------------------------------------- gio.NewSettings returned nil
InitNil ==
    /\ settings = FALSE
    /\ writable = TRUE
    /\ nilPanics \in BOOLEAN
    /\ installed = {"a"}
    /\ meta = {}
    /\ gs \in SeqsUpTo(MaxDock)
    /\ conf \in {c \in ConfFiles : Len(c.position) <= 1}
    /\ dock \in SeqsUpTo(MaxDock)
    /\ Fresh

SpecNil == InitNil /\ [][Next]_vars

\* ---------------------------- old files of every kind, installed or not
InitMig ==
    /\ settings = TRUE
    /\ writable = TRUE
    /\ nilPanics = FALSE
    /\ installed \in SUBSET Ids
    /\ meta \in SUBSET Ids
    /\ gs = <<>>
    /\ conf \in ConfFiles
    /\ dock \in SeqsUpTo(1)
    /\ Fresh

SpecMig == InitMig /\ [][Next]_vars

\* ------------------------------------------ a backend whose writes can fail
\* the docked-apps key stops or starts taking writes
SetWritable ==
    /\ writable' = ~writable
    /\ last' = [op |-> "SetWritable", id |-> "", pre |-> Pre]
    /\ tr' = <<>>
    /\ seen' = NoSeen
    /\ UNCHANGED <<phase, settings, dockedAppList, gs, conf, dock, ret, migrations, migGs,
                   nUndockOk, nUndocked, ops, nilPanics, installed, meta, thr>>

InitFail ==
    /\ settings = TRUE
    /\ writable \in BOOLEAN
    /\ nilPanics = FALSE
    /\ installed = {"a"}
    /\ meta = {}
    /\ gs \in SeqsUpTo(MaxLen)
    /\ conf = [exists |-> FALSE, inited |-> FALSE, hasPosition |-> FALSE, position |-> <<>>]
    /\ dock \in SeqsUpTo(MaxDock)
    /\ Fresh

NextFail ==
    \/ Next
    \/ SetWritable

SpecFail == InitFail /\ [][NextFail]_vars

\* ------------------------------------- two requests running concurrently
\* The manager has no lock: a request is the DockManager's change, then the
\* statements of saveDockedAppList one by one, then the signal.
Step(t, pc) == thr' = [thr EXCEPT ![t].pc = pc]

Delegate(t) ==
    /\ thr[t].pc = "start"
    /\ IF thr[t].op = "RequestDock"
       THEN /\ dock' = DockStateDock(dock, thr[t].id)
            /\ Step(t, "read")
       ELSE IF isStrInSlice(thr[t].id, dock)
            THEN /\ dock' = DockStateUndock(dock, thr[t].id)
                 /\ Step(t, "read")
            ELSE /\ dock' = dock
                 /\ Step(t, "done")
    /\ UNCHANGED <<dockedAppList, gs, tr>>

\* apps := m.dockManager.getDockedAppList()
ReadDocked(t) ==
    /\ thr[t].pc = "read"
    /\ thr' = [thr EXCEPT ![t].pc = "compare", ![t].apps = getDockedAppList(World)]
    /\ UNCHANGED <<dockedAppList, gs, dock, tr>>

\* if !strSliceEqual(m.dockedAppList, apps)
Compare(t) ==
    /\ thr[t].pc = "compare"
    /\ Step(t, IF ~strSliceEqual(dockedAppList, thr[t].apps) THEN "write" ELSE "emit")
    /\ UNCHANGED <<dockedAppList, gs, dock, tr>>

\* m.saveAppList(apps)
Write(t) ==
    /\ thr[t].pc = "write"
    /\ gs' = saveAppList(World, thr[t].apps).gs
    /\ Step(t, "assign")
    /\ UNCHANGED <<dockedAppList, dock, tr>>

\* m.dockedAppList = apps
Assign(t) ==
    /\ thr[t].pc = "assign"
    /\ dockedAppList' = thr[t].apps
    /\ Step(t, "emit")
    /\ UNCHANGED <<gs, dock, tr>>

Emit(t) ==
    /\ thr[t].pc = "emit"
    /\ tr' = emitSignal([World EXCEPT !.tr = tr],
                        IF thr[t].op = "RequestDock" THEN "Docked" ELSE "Undocked",
                        thr[t].id).tr
    /\ Step(t, "done")
    /\ UNCHANGED <<dockedAppList, gs, dock>>

ConcFrame ==
    UNCHANGED <<phase, settings, writable, conf, ret, last, migrations, migGs,
                nUndockOk, nUndocked, ops, nilPanics, installed, meta, seen>>

\* the manager is constructed and in step with the DockManager; two requests
\* for different ids arrive
InitConc ==
    /\ settings = TRUE
    /\ writable = TRUE
    /\ nilPanics = FALSE
    /\ installed = {"a"}
    /\ meta = {}
    /\ conf = [exists |-> FALSE, inited |-> FALSE, hasPosition |-> FALSE, position |-> <<>>]
    /\ dock \in {l \in SeqsUpTo(MaxDock) : NoDup(l)}
    /\ gs = dock
    /\ dockedAppList = dock
    /\ phase = "Ready"
    /\ thr \in {f \in [Threads -> [pc : {"start"}, op : {"RequestDock", "RequestUndock"},
                                     id : Ids, apps : {<<>>}]] :
                   \A t, u \in Threads : t # u => f[t].id # f[u].id}
    /\ NoHistory

NextConc ==
    \/ \E t \in Threads : Delegate(t) /\ ConcFrame
    \/ \E t \in Threads : ReadDocked(t) /\ ConcFrame
    \/ \E t \in Threads : Compare(t) /\ ConcFrame
    \/ \E t \in Threads : Write(t) /\ ConcFrame
    \/ \E t \in Threads : Assign(t) /\ ConcFrame
    \/ \E t \in Threads : Emit(t) /\ ConcFrame

SpecConc == InitConc /\ [][NextConc]_vars

\* ------------------------------------------------------------------ claims
Req == last.op \in {"RequestDock", "RequestUndock"}

\* the last operation was a request that succeeded, so its sync step ran
Synced == Req /\ ret

New == last.op = "New"

\* the lists SetStrv was called with during the last operation, in order
Written(t) == SelectSeq(t, LAMBDA e : e.kind = "SetStrv")

Has(t, kind) == Count(t, kind) > 0

\* the last construction ran the migration body
Migrated == New /\ migrations = last.pre.migrations + 1

Elems(l) == {l[i] : i \in 1..Len(l)}

FirstIndex(l, x) == CHOOSE i \in 1..Len(l) : l[i] = x /\ \A j \in 1..(i - 1) : l[j] # x

\* out holds each id of in exactly once, in the order of first occurrence in in
IsFirstOccurrenceDedup(out, in) ==
    /\ NoDup(out)
    /\ Elems(out) = Elems(in)
    /\ \A i, j \in 1..Len(out) : i < j => FirstIndex(in, out[i]) < FirstIndex(in, out[j])

\* C1 (as stated): at every sync point, startup included, gsettings is written
\* if and only if the stored list differs from the DockManager's current list.
C1_WrittenIffStoredDiffers ==
    (New \/ Synced) => (Writes(tr) > 0 <=> last.pre.gs # dock)

\* C1 (amended): at the sync of a successful dock/undock request gsettings is
\* written, once and with the DockManager's list, if and only if the cached list
\* differs in order-sensitive comparison from the DockManager's list; a failed
\* request writes nothing; startup writes without comparing, once to store the
\* deduplicated list and once more before that when it migrates.
C1_SyncWritesIffCacheDiffers ==
    /\ Synced /\ last.pre.dockedAppList # dock =>
           Written(tr) = <<Eff("SetStrv", dock, "")>> /\ gs = dock
    /\ Synced /\ last.pre.dockedAppList = dock => Writes(tr) = 0
    /\ Req /\ ~ret => Writes(tr) = 0
    /\ New => Writes(tr) = 1 + (migrations - last.pre.migrations)

C1_Witness ==
    /\ last.op = "RequestUndock" /\ ret
    /\ last.pre.dockedAppList # dock
    /\ Elems(last.pre.dockedAppList) = Elems(dock) \cup {last.id}
    /\ Writes(tr) = 1

\* C2: when the DockManager's list equals the cached list, element by element,
\* at the sync of a handled request, the sync calls neither SetStrv nor
\* SettingsSync and the cached and the stored list stay as they were.
C2_EqualListsNoWrite ==
    Synced /\ dock = last.pre.dockedAppList =>
        /\ ~Has(tr, "SetStrv")
        /\ ~Has(tr, "Sync")
        /\ dockedAppList = last.pre.dockedAppList
        /\ gs = last.pre.gs

C2_Witness ==
    /\ Synced
    /\ dock = last.pre.dockedAppList
    /\ dock # <<>>
    /\ tr = <<Eff(IF last.op = "RequestDock" THEN "Docked" ELSE "Undocked", <<>>, last.id)>>

\* C3: a request that returns false leaves the cached and the stored list as
\* they were, writes nothing and emits nothing.
C3_FailedRequestChangesNothing ==
    Req /\ ~ret =>
        /\ dockedAppList = last.pre.dockedAppList
        /\ gs = last.pre.gs
        /\ dock = last.pre.dock
        /\ Writes(tr) = 0
        /\ Events(tr) = <<>>

C3_Witness ==
    /\ last.op = "RequestDock" /\ ~ret
    /\ dockedAppList # dock
    /\ ~isStrInSlice(last.id, dock)

C5_UndockEmitsOnce ==
    /\ last.op = "RequestUndock" /\ ret =>
           /\ ~IsDocked(World, last.id)
           /\ Events(tr) = <<Eff("Undocked", <<>>, last.id)>>
    /\ last.op = "RequestUndock" /\ ~ret => Events(tr) = <<>>
    /\ nUndocked = nUndockOk

C5_Witness ==
    /\ last.op = "RequestUndock" /\ ret
    /\ IsDocked(last.pre, last.id)
    /\ nUndockOk = 2

\* C6 (as stated): after a successful delegation, when the DockManager's list
\* equals the cached list neither a write nor a signal occurs.
C6_EqualListsNoWriteNoEvent ==
    Synced /\ dock = last.pre.dockedAppList => Writes(tr) = 0 /\ Events(tr) = <<>>

\* C6 (amended): after a successful delegation the list is persisted only if
\* the DockManager's list differs from the cached list, and the Docked/Undocked
\* signal is emitted exactly once in either case.
C6_WriteOnlyIfDiffersEventAlways ==
    Synced =>
        /\ Writes(tr) > 0 => dock # last.pre.dockedAppList
        /\ Events(tr) = <<Eff(IF last.op = "RequestDock" THEN "Docked" ELSE "Undocked",
                              <<>>, last.id)>>

C6_Witness ==
    /\ last.op = "RequestDock" /\ ret
    /\ dock = last.pre.dockedAppList
    /\ Writes(tr) = 0
    /\ Events(tr) = <<Eff("Docked", <<>>, last.id)>>

\* C7: over all the constructions of one installation the migration body runs
\* at most once.
C7_MigrationAtMostOnce == migrations <= 1

\* C8: with the inited flag already true, handleOldConfigFile does not read
\* Position, does not write gsettings and does not rewrite the old file, and a
\* stored list without repeats is loaded verbatim; a construction that follows
\* a migrating one leaves the stored list the migrating one left.
C8_SecondMigrationNoOp ==
    /\ New /\ last.pre.conf.exists /\ last.pre.conf.inited /\ ~Has(tr, "LoadFailed") =>
           /\ ~Has(tr, "GetPosition")
           /\ ~Has(tr, "WriteFile") /\ ~Has(tr, "WriteFileFailed")
           /\ conf = last.pre.conf
           /\ migrations = last.pre.migrations
           /\ Written(tr) = <<Eff("SetStrv", dockedAppList, "")>>
           /\ NoDup(last.pre.gs) => dockedAppList = last.pre.gs /\ gs = last.pre.gs
    /\ New /\ last.pre.migGs # NoList => gs = last.pre.migGs

C8_Witness ==
    /\ New /\ last.pre.conf.inited /\ ~Has(tr, "LoadFailed")
    /\ last.pre.migGs # NoList
    /\ Len(last.pre.conf.position) > Len(gs)
    /\ Len(gs) = 2

C10_NoDuplicates == phase = "Ready" => NoDup(dockedAppList) /\ NoDup(gs)

\* C11: when gio.NewSettings returned nil the manager stays empty, the process
\* goes on, and no call is ever made on the missing backend.
C11_NilBackendNeverTouched ==
    ~settings =>
        /\ phase # "Crashed"
        /\ ~Has(tr, "NilSetStrv")
        /\ phase = "Ready" => dockedAppList = <<>>
        /\ last.op = "IsDocked" => ~ret

\* C12: once two concurrent requests for different ids have both finished, the
\* cached and the stored list equal the DockManager's list.
C12_NoLostUpdate ==
    (\A t \in Threads : thr[t].pc = "done") => dockedAppList = dock /\ gs = dock

\* C13 (as stated): when the old file is absent or cannot be loaded, the
\* migration writes nothing to gsettings and sets the inited flag true.
C13_LoadFailureSetsFlag ==
    New /\ Has(tr, "LoadFailed") =>
        /\ migrations = last.pre.migrations
        /\ Writes(tr) = 1
        /\ conf.inited

\* C13 (amended): when the old file is absent or cannot be loaded, the
\* migration reads no Position list, writes nothing to gsettings and leaves the
\* old file and its inited flag as they were; the construction goes on and
\* writes back only the deduplicated stored list.
C13_LoadFailureLeavesFlag ==
    New /\ Has(tr, "LoadFailed") =>
        /\ ~Has(tr, "GetPosition")
        /\ migrations = last.pre.migrations
        /\ Written(tr) = <<Eff("SetStrv", uniqStrSlice(last.pre.gs), "")>>
        /\ conf = last.pre.conf
        /\ phase = "Ready"

C13_Witness ==
    /\ New /\ Has(tr, "LoadFailed")
    /\ conf.exists /\ ~conf.inited /\ conf.hasPosition
    /\ conf.position # <<>>
    /\ gs # <<>>
    /\ Elems(gs) # Elems(conf.position)

\* the id neither resolves to an installed application nor has usable fields
Malformed(id) == id \notin installed /\ id \notin meta

\* C14 (as stated): a malformed entry of the old file is left out of the
\* migrated list.
C14_MalformedSkipped ==
    Migrated => \A id \in Elems(last.pre.conf.position) : Malformed(id) => ~IsDocked(World, id)

\* C14 (amended): every id of the old list is migrated, in first-occurrence
\* order, a malformed one included; for each id that does not resolve to an
\* installed application createScratchDesktopFile is called once, with empty
\* fields when the entry is malformed.
C14_MalformedKept ==
    Migrated =>
        /\ IsFirstOccurrenceDedup(Written(tr)[1].apps, last.pre.conf.position)
        /\ dockedAppList = Written(tr)[1].apps
        /\ \A id \in Ids :
             /\ Count(SelectSeq(tr, LAMBDA e : e.id = id), "Scratch")
                    = IF id \in Elems(last.pre.conf.position) /\ id \notin installed
                         /\ id \in meta THEN 1 ELSE 0
             /\ Count(SelectSeq(tr, LAMBDA e : e.id = id), "ScratchEmpty")
                    = IF id \in Elems(last.pre.conf.position) /\ Malformed(id) THEN 1 ELSE 0

C14_Witness ==
    /\ Migrated
    /\ last.pre.conf.position = <<"b", "a", "b">>
    /\ Malformed("b")
    /\ ~Malformed("a") /\ "a" \notin installed
    /\ dockedAppList = <<"b", "a">>

\* C15: when the write of a sync fails, the request still returns true and the
\* cached list is DockState's list while the stored list stays as it was; a
\* later sync that finds the cached list different from DockState's list writes,
\* and a write that takes effect leaves the stored list equal to DockState's.
C15_FailedWriteStillCaches ==
    /\ Req /\ ~writable /\ dock # last.pre.dock =>
           /\ ret
           /\ dockedAppList = dock
           /\ \A id \in Ids : IsDocked(World, id) <=> id \in Elems(dock)
           /\ gs = last.pre.gs
    /\ Synced /\ writable /\ last.pre.dockedAppList # dock => Writes(tr) = 1
    /\ Synced /\ writable /\ Writes(tr) = 1 => gs = dock /\ dockedAppList = dock

C15_Witness ==
    /\ Synced /\ writable /\ Writes(tr) = 1
    /\ NoDup(last.pre.gs)
    /\ last.pre.gs # last.pre.dockedAppList
    /\ last.pre.dockedAppList = last.pre.dock
    /\ gs = dock

\* C16 (as stated): when the construction finishes, the cached and the stored
\* list equal the DockManager's list.
C16_StartupSyncsWithDock == New => dockedAppList = dock /\ gs = dock

\* C16 (amended): the construction never reads the DockManager's list: when it
\* finishes, the cached and the stored list are the deduplicated list it loaded
\* (the migrated one if it migrated), written back once, whatever the
\* DockManager holds.
C16_StartupIgnoresDock ==
    New =>
        /\ dock = last.pre.dock
        /\ dockedAppList = gs
        /\ gs = uniqStrSlice(IF Migrated THEN last.pre.conf.position ELSE last.pre.gs)
        /\ tr[Len(tr) - 1] = Eff("SetStrv", gs, "")
        /\ Writes(tr) = IF Migrated THEN 2 ELSE 1

C16_Witness ==
    /\ New /\ ~Migrated
    /\ dock # <<>> /\ gs # <<>>
    /\ Elems(dock) # Elems(gs)

\* C17: IsDocked(id) is true exactly when id is in the cached list, and the
\* call changes nothing and has no effect.
C17_IsDockedPure ==
    last.op = "IsDocked" =>
        /\ ret <=> last.id \in Elems(dockedAppList)
        /\ tr = <<>>
        /\ dockedAppList = last.pre.dockedAppList
        /\ gs = last.pre.gs
        /\ dock = last.pre.dock
        /\ conf = last.pre.conf
        /\ migrations = last.pre.migrations

C17_Witness ==
    /\ last.op = "IsDocked"
    /\ ~ret
    /\ last.id \in Elems(dock)
    /\ dockedAppList # <<>>

\* C18: with a working backend and one operation at a time, the cached list
\* equals the stored list whenever the manager is constructed and at rest.
C18_CacheEqualsStored == phase = "Ready" => dockedAppList = gs

C18_Witness ==
    /\ Synced
    /\ gs # last.pre.gs
    /\ last.pre.gs # <<>>
    /\ dockedAppList = gs
    /\ ops = MaxOps

\* C19: when the signal of a successful request is emitted, the write, the flush
\* and the replacement of the cached list are done: the cached and the stored
\* list are then the DockManager's list, and the signal is the last effect.
C19_SyncBeforeSignal ==
    Synced =>
        /\ seen.dockedAppList = dock
        /\ seen.gs = dock
        /\ seen.dock = dock
        /\ tr[Len(tr)].kind \in {"Docked", "Undocked"}
        /\ \A i \in 1..(Len(tr) - 1) : tr[i].kind \in {"SetStrv", "Sync"}

C19_Witness ==
    /\ last.op = "RequestDock" /\ ret
    /\ Len(tr) = 3
    /\ seen.dockedAppList # last.pre.dockedAppList
    /\ seen.gs # last.pre.gs

\* C20: when the migration runs, the stored list is replaced by the
\* deduplicated old list, not merged with it.
C20_MigrationReplaces ==
    Migrated =>
        /\ gs = uniqStrSlice(last.pre.conf.position)
        /\ dockedAppList = gs
        /\ Elems(gs) \subseteq Elems(last.pre.conf.position)

C20_Witness ==
    /\ Migrated
    /\ last.pre.conf.position # <<>>
    /\ ~(Elems(last.pre.gs) \subseteq Elems(last.pre.conf.position))
    /\ Len(gs) < Len(last.pre.gs)

====
